---- MODULE Spec2Model ----
(***************************************************************************)
(* A model of the leveraged vault of defisaver-sim: the CDP object of      *)
(* modules/cdp.py (boostTo, repayTo, close, automate), the simulators of   *)
(* modules/simulate.py, the threshold optimizer of modules/optimize.py and *)
(* the price generators of modules/pricegeneration.py.                     *)
(*                                                                         *)
(* The program computes in floating point; the model computes the same     *)
(* expressions in exact rational arithmetic.  A rational is a pair         *)
(* <<numerator, denominator>> in lowest terms with a positive denominator, *)
(* so that two rationals are equal exactly when the pairs are equal.       *)
(* Percentages (targets, thresholds, fees, min_ratio), prices and gas      *)
(* prices are drawn from small sets of integers.  A division by zero and   *)
(* a failed assert both end the call with an exception ("fatal").          *)
(***************************************************************************)
EXTENDS Integers, Sequences, FiniteSets, TLC

(***************************************************************************)
(* Exact rational arithmetic.                                              *)
(***************************************************************************)
Abs(x) == IF x < 0 THEN -x ELSE x

RECURSIVE GCD(_, _)
GCD(a, b) == IF b = 0 THEN a ELSE GCD(b, a % b)

Rat(n, d) ==
    LET s == IF d < 0 THEN -1 ELSE 1
        g == GCD(Abs(n), Abs(d))
    IN  << (s * n) \div g, (s * d) \div g >>

FromInt(n) == << n, 1 >>
Zero == << 0, 1 >>
One == << 1, 1 >>

RAdd(a, b) ==
    LET g == GCD(a[2], b[2])
    IN  Rat(a[1] * (b[2] \div g) + b[1] * (a[2] \div g), (a[2] \div g) * b[2])
RNeg(a) == << -a[1], a[2] >>
RSub(a, b) == RAdd(a, RNeg(b))
RMul(a, b) ==
    LET g1 == GCD(Abs(a[1]), b[2])
        g2 == GCD(Abs(b[1]), a[2])
    IN  Rat((a[1] \div g1) * (b[1] \div g2), (a[2] \div g2) * (b[2] \div g1))
RInv(a) == Rat(a[2], a[1])
RDiv(a, b) == RMul(a, RInv(b))
RLt(a, b) == a[1] * b[2] < b[1] * a[2]
RGt(a, b) == RLt(b, a)
RIsZero(a) == a[1] = 0

(***************************************************************************)
(* The CDP object (modules/cdp.py).  A position is a record of the         *)
(* object's attributes.  The class keeps two automation attributes:        *)
(* isAutomated, which __init__ creates, repayTo and disableAutomation      *)
(* clear and the simulator reads; and automated, which automate assigns    *)
(* (it does not exist before the first automate call: FALSE stands for     *)
(* "not set").                                                             *)
(***************************************************************************)
MinAutomationDebt == 10000
GasUnits == 1000000
GasCapGwei == 499
EmergencyMargin == 10

NoSettings == [repay_from |-> 0, repay_to |-> 0, boost_from |-> 0, boost_to |-> 0]

NewCDP(initial_collateral, initial_debt, min_ratio) ==
    [collateral |-> initial_collateral,
     debt |-> initial_debt,
     isAutomated |-> FALSE,
     automated |-> FALSE,
     automation_settings |-> NoSettings,
     min_ratio |-> min_ratio,
     min_automation_debt |-> MinAutomationDebt]

\* 100*collateral*price/debt; the caller guarantees debt # 0
getCollateralizationRatio(v, price) ==
    RDiv(RMul(FromInt(100), RMul(v.collateral, FromInt(price))), v.debt)

\* What a call leaves behind: the position; how the call ended ("True" or
\* "False" returned by a rebalance, "None" for a method without a return
\* value, "number" for close, "fatal" for an exception); the number close
\* returned; and, for a rebalance, the gas value and the deltas it used.
Outcome(v, ret) ==
    [vault |-> v, ret |-> ret, returned |-> Zero, g |-> Zero, deltaDebt |-> Zero,
     deltaCollateral |-> Zero, emergency |-> FALSE]

Performed(v, ret, g, deltaDebt, deltaCollateral, emergency) ==
    [vault |-> v, ret |-> ret, returned |-> Zero, g |-> g, deltaDebt |-> deltaDebt,
     deltaCollateral |-> deltaCollateral, emergency |-> emergency]

\* g = 1000000*gas_price_in_gwei*1e-9
GasCost(gas_price_in_gwei) == Rat(GasUnits * gas_price_in_gwei, 1000000000)

\* gamma = 1 - service_fee/100
Gamma(service_fee) == RSub(One, Rat(service_fee, 100))

(***************************************************************************)
(* close                                                                   *)
(***************************************************************************)
\* mutant: the debt is converted with the price multiplied in, not divided
CloseVaultTimesPrice(v, price) ==
    IF RGt(v.debt, Zero)
    THEN [v EXCEPT !.collateral = RSub(v.collateral, RMul(v.debt, FromInt(price))),
                   !.debt = Zero]
    ELSE v

CloseVault(v, price) ==
    IF RGt(v.debt, Zero)
    THEN [v EXCEPT !.collateral = RSub(v.collateral, RDiv(v.debt, FromInt(price))),
                   !.debt = Zero]
    ELSE v

close(v, price) ==
    [Outcome(CloseVault(v, price), "number") EXCEPT
        !.returned = CloseVault(v, price).collateral]

(***************************************************************************)
(* automate, disableAutomation                                             *)
(***************************************************************************)
\* mutant: the precondition admits equality
AutomatePreconditionNonStrict(v, repay_from) ==
    repay_from >= v.min_ratio + EmergencyMargin

\* assert repay_from > self.min_ratio + 10
AutomatePrecondition(v, repay_from) == repay_from > v.min_ratio + EmergencyMargin

\* mutant: the call sets the attribute the simulator reads
AutomateUpdateSetsIsAutomated(v, repay_from, repay_to, boost_from, boost_to) ==
    [v EXCEPT !.isAutomated = TRUE,
              !.automation_settings =
                  [repay_from |-> repay_from, repay_to |-> repay_to,
                   boost_from |-> boost_from, boost_to |-> boost_to]]

AutomateUpdate(v, repay_from, repay_to, boost_from, boost_to) ==
    [v EXCEPT !.automated = TRUE,
              !.automation_settings =
                  [repay_from |-> repay_from, repay_to |-> repay_to,
                   boost_from |-> boost_from, boost_to |-> boost_to]]

automate(v, repay_from, repay_to, boost_from, boost_to) ==
    IF AutomatePrecondition(v, repay_from)
    THEN Outcome(AutomateUpdate(v, repay_from, repay_to, boost_from, boost_to), "None")
    ELSE Outcome(v, "fatal")

disableAutomation(v) == Outcome([v EXCEPT !.isAutomated = FALSE], "None")

(***************************************************************************)
(* boostTo                                                                 *)
(***************************************************************************)
\* self.debt == 0 or target/100 < self.collateral*price/self.debt
BoostEligible(v, t, p) ==
    IF RIsZero(v.debt) THEN TRUE
    ELSE RLt(t, RDiv(RMul(v.collateral, p), v.debt))

\* mutant: the factor 5 (the 20% share) is left out of the gate
BoostGateDenominatorNoShare(t, gamma) ==
    RAdd(RSub(t, gamma), One)

\* the two sides of  p*g < (p*c - t*d)/(5*(t - gamma) + 1)
BoostGateDenominator(t, gamma) ==
    RAdd(RMul(FromInt(5), RSub(t, gamma)), One)

BoostGateBound(p, c, d, t, gamma) ==
    RDiv(RSub(RMul(p, c), RMul(t, d)), BoostGateDenominator(t, gamma))

BoostGate(p, g, c, d, t, gamma) ==
    RLt(RMul(p, g), BoostGateBound(p, c, d, t, gamma))

\* mutant: the gas charged is not capped
BoostGasChargedUncapped(gas_price_in_gwei) == GasCost(gas_price_in_gwei)

\* the gas charged is capped at a price of 499 gwei, after the gate
BoostGasCharged(gas_price_in_gwei) ==
    IF gas_price_in_gwei > GasCapGwei THEN GasCost(GasCapGwei)
    ELSE GasCost(gas_price_in_gwei)

\* mutant: the divisor has the wrong sign
BoostDeltaDebtSwapped(p, c, d, g, t, gamma) ==
    RDiv(RSub(RSub(RMul(p, c), RMul(p, g)), RMul(t, d)), RSub(gamma, t))

\* deltaDebt = (p*c - p*g - t*d)/(t - gamma)
BoostDeltaDebt(p, c, d, g, t, gamma) ==
    RDiv(RSub(RSub(RMul(p, c), RMul(p, g)), RMul(t, d)), RSub(t, gamma))

\* mutant: the gas is left out of the collateral bought
BoostDeltaCollateralNoGas(p, g, gamma, deltaDebt) ==
    RDiv(RMul(gamma, deltaDebt), p)

\* deltaCollateral = (gamma*deltaDebt - p*g)/p
BoostDeltaCollateral(p, g, gamma, deltaDebt) ==
    RDiv(RSub(RMul(gamma, deltaDebt), RMul(p, g)), p)

\* the update and the two asserts that follow it: the attributes are
\* assigned before the asserts run, so a failed assert leaves them changed
BoostApply(v, g, deltaDebt, deltaCollateral) ==
    LET w == [v EXCEPT !.debt = RAdd(v.debt, deltaDebt),
                       !.collateral = RAdd(v.collateral, deltaCollateral)]
    IN  IF RGt(w.debt, Zero) /\ RGt(w.collateral, Zero)
        THEN Performed(w, "True", g, deltaDebt, deltaCollateral, FALSE)
        ELSE Performed(w, "fatal", g, deltaDebt, deltaCollateral, FALSE)

\* mutant: the position is updated before the gas gate is tested
boostToUpdateFirst(v, target, price, gas_price_in_gwei, service_fee) ==
    LET t == Rat(target, 100)
        c == v.collateral
        d == v.debt
        p == FromInt(price)
        gamma == Gamma(service_fee)
        g0 == GasCost(gas_price_in_gwei)
    IN  IF ~BoostEligible(v, t, p) THEN Outcome(v, "False")
        ELSE IF RIsZero(BoostGateDenominator(t, gamma)) THEN Outcome(v, "fatal")
        ELSE IF RIsZero(RSub(t, gamma)) THEN Outcome(v, "fatal")
        ELSE LET g == BoostGasCharged(gas_price_in_gwei)
                 deltaDebt == BoostDeltaDebt(p, c, d, g, t, gamma)
                 deltaCollateral == BoostDeltaCollateral(p, g, gamma, deltaDebt)
             IN  IF BoostGate(p, g0, c, d, t, gamma)
                 THEN BoostApply(v, g, deltaDebt, deltaCollateral)
                 ELSE Outcome(BoostApply(v, g, deltaDebt, deltaCollateral).vault, "False")

boostTo(v, target, price, gas_price_in_gwei, service_fee) ==
    LET t == Rat(target, 100)
        c == v.collateral
        d == v.debt
        p == FromInt(price)
        gamma == Gamma(service_fee)
        g0 == GasCost(gas_price_in_gwei)
    IN  IF ~BoostEligible(v, t, p) THEN Outcome(v, "False")
        ELSE IF RIsZero(BoostGateDenominator(t, gamma)) THEN Outcome(v, "fatal")
        ELSE IF ~BoostGate(p, g0, c, d, t, gamma) THEN Outcome(v, "False")
        ELSE IF RIsZero(RSub(t, gamma)) THEN Outcome(v, "fatal")
        ELSE LET g == BoostGasCharged(gas_price_in_gwei)
                 deltaDebt == BoostDeltaDebt(p, c, d, g, t, gamma)
                 deltaCollateral == BoostDeltaCollateral(p, g, gamma, deltaDebt)
             IN  BoostApply(v, g, deltaDebt, deltaCollateral)

(***************************************************************************)
(* repayTo                                                                 *)
(***************************************************************************)
\* mutant: the eligibility comparison admits equality
RepayEligibleNonStrict(collateralization, t) == ~RLt(t, collateralization)

\* collateralization < target/100
RepayEligible(collateralization, t) == RLt(collateralization, t)

\* mutant: the 10 points of margin above min_ratio are left out
IsEmergencyRepayNoMargin(v, collateralization) ==
    RLt(RMul(FromInt(100), collateralization), FromInt(v.min_ratio))

\* 100*collateralization < self.min_ratio + 10
IsEmergencyRepay(v, collateralization) ==
    RLt(RMul(FromInt(100), collateralization), FromInt(v.min_ratio + EmergencyMargin))

\* the two sides of  p*g < (t*d - p*c)/(5*(gamma*t - 1) - t)
RepayGateDenominator(t, gamma) ==
    RSub(RMul(FromInt(5), RSub(RMul(gamma, t), One)), t)

RepayGateBound(p, c, d, t, gamma) ==
    RDiv(RSub(RMul(t, d), RMul(p, c)), RepayGateDenominator(t, gamma))

RepayGate(p, g, c, d, t, gamma) ==
    RLt(RMul(p, g), RepayGateBound(p, c, d, t, gamma))

\* mutant: the gas value of an emergency repay is not clamped
RepayGasChargedNoClamp(isEmergencyRepay, gas_price_in_gwei, p, c, d, t, gamma) ==
    IF isEmergencyRepay THEN GasCost(gas_price_in_gwei)
    ELSE IF gas_price_in_gwei > GasCapGwei THEN GasCost(GasCapGwei)
    ELSE GasCost(gas_price_in_gwei)

\* the gas value used in the deltas: clamped to the gate bound in an
\* emergency repay, capped at 499 gwei otherwise
RepayGasCharged(isEmergencyRepay, gas_price_in_gwei, p, c, d, t, gamma) ==
    LET g0 == GasCost(gas_price_in_gwei)
    IN  IF isEmergencyRepay
        THEN IF RGt(RMul(p, g0), RepayGateBound(p, c, d, t, gamma))
             THEN RMul(RDiv(One, p), RepayGateBound(p, c, d, t, gamma))
             ELSE g0
        ELSE IF gas_price_in_gwei > GasCapGwei THEN GasCost(GasCapGwei)
        ELSE g0

\* deltaCollateral = (t*d + t*p*g - p*c)/(p*(gamma*t-1))
RepayDeltaCollateral(p, c, d, g, t, gamma) ==
    RDiv(RSub(RAdd(RMul(t, d), RMul(t, RMul(p, g))), RMul(p, c)),
         RMul(p, RSub(RMul(gamma, t), One)))

\* mutant: the service fee is left out of the debt repaid
RepayDeltaDebtNoFee(p, g, gamma, deltaCollateral) ==
    RSub(RMul(p, deltaCollateral), RMul(p, g))

\* deltaDebt = gamma*p*deltaCollateral - p*g
RepayDeltaDebt(p, g, gamma, deltaCollateral) ==
    RSub(RMul(gamma, RMul(p, deltaCollateral)), RMul(p, g))

\* if self.debt < self.min_automation_debt: self.isAutomated = False
\* (the test runs before the position is updated)
RepayAutomationFlag(v) ==
    IF RLt(v.debt, FromInt(v.min_automation_debt)) THEN FALSE ELSE v.isAutomated

RepayApply(v, g, deltaDebt, deltaCollateral, emergency) ==
    LET w == [v EXCEPT !.isAutomated = RepayAutomationFlag(v),
                       !.collateral = RSub(v.collateral, deltaCollateral),
                       !.debt = RSub(v.debt, deltaDebt)]
    IN  IF RGt(w.collateral, Zero) /\ RGt(w.debt, Zero)
        THEN Performed(w, "True", g, deltaDebt, deltaCollateral, emergency)
        ELSE Performed(w, "fatal", g, deltaDebt, deltaCollateral, emergency)

\* mutant: a position without debt is reported as not repaid
RepayWithoutDebtFalse(v) == Outcome(v, "False")

\* collateralization = self.collateral*price/self.debt with self.debt == 0
\* (ZeroDivisionError), and the assert False behind it
RepayWithoutDebt(v) == Outcome(v, "fatal")

repayTo(v, target, price, gas_price_in_gwei, service_fee) ==
    LET t == Rat(target, 100)
        c == v.collateral
        d == v.debt
        p == FromInt(price)
        gamma == Gamma(service_fee)
        g0 == GasCost(gas_price_in_gwei)
    IN  IF RIsZero(d) THEN RepayWithoutDebt(v)
        ELSE LET collateralization == RDiv(RMul(c, p), d)
                 isEmergencyRepay == IsEmergencyRepay(v, collateralization)
             IN  IF ~RepayEligible(collateralization, t) THEN Outcome(v, "False")
                 ELSE IF RIsZero(RepayGateDenominator(t, gamma)) THEN Outcome(v, "fatal")
                 ELSE IF ~(RepayGate(p, g0, c, d, t, gamma) \/ isEmergencyRepay)
                      THEN Outcome(v, "False")
                 ELSE IF RIsZero(RSub(RMul(gamma, t), One)) THEN Outcome(v, "fatal")
                 ELSE LET g == RepayGasCharged(isEmergencyRepay, gas_price_in_gwei,
                                               p, c, d, t, gamma)
                          deltaCollateral == RepayDeltaCollateral(p, c, d, g, t, gamma)
                          deltaDebt == RepayDeltaDebt(p, g, gamma, deltaCollateral)
                      IN  RepayApply(v, g, deltaDebt, deltaCollateral, isEmergencyRepay)

(***************************************************************************)
(* State.  vault is the CDP object; last describes the most recent method  *)
(* call on it (the method, its arguments, the position before the call,    *)
(* what it returned and the quantities it computed); calls counts the     *)
(* method calls made.  The remaining variables are the locals of          *)
(* simulateLeveragedSingle.  ensemble holds the arguments and the four      *)
(* lists of simulateLeveragedBoundedGBM / simulateLeveragedGBM, optimizer   *)
(* the locals of optimizeAutomationBoundedGBM, trend the arguments and the  *)
(* result of createUptrend / createDowntrend.                               *)
(***************************************************************************)
VARIABLES vault, last, calls,
          pc, params, tick, values_in_collateral, values_in_debt,
          collateralizations, attempts,
          ensemble, optimizer, trend, gbm

vars == << vault, last, calls, pc, params, tick, values_in_collateral,
           values_in_debt, collateralizations, attempts,
           ensemble, optimizer, trend, gbm >>

libVars == << ensemble, optimizer, trend, gbm >>

Idle == [pc |-> "idle"]

LibIdle ==
    /\ ensemble = Idle
    /\ optimizer = Idle
    /\ trend = Idle
    /\ gbm = Idle

simVars == << pc, params, tick, values_in_collateral, values_in_debt,
              collateralizations, attempts >>

(***************************************************************************)
(* Bounds and input sets.                                                  *)
(***************************************************************************)
MaxCalls == 2

InitPositions == {<< 3, 200 >>, << 150, 10000 >>, << 150, 12000 >>,
                  << 300, 0 >>, << 300, 12000 >>}
MinRatios == {150}
Targets == {80, 125, 150, 200, 300}
Prices == {100, 200}
GasPrices == {0, 600}
ServiceFees == {0, 20}
RepayFroms == {160, 170}

NoArgs == [target |-> 0, price |-> 0, gas_price_in_gwei |-> 0, service_fee |-> 0,
           settings |-> NoSettings]

RebalanceArgs(target, price, gas_price_in_gwei, service_fee) ==
    [target |-> target, price |-> price, gas_price_in_gwei |-> gas_price_in_gwei,
     service_fee |-> service_fee, settings |-> NoSettings]

Call(op, args, pre, out) ==
    [op |-> op, args |-> args, pre |-> pre, ret |-> out.ret,
     returned |-> out.returned, g |-> out.g,
     deltaDebt |-> out.deltaDebt, deltaCollateral |-> out.deltaCollateral,
     emergency |-> out.emergency]

NoCall == Call("none", NoArgs, NewCDP(Zero, Zero, 0), Outcome(NewCDP(Zero, Zero, 0), "None"))

SimIdle ==
    /\ pc = "idle"
    /\ params = << >>
    /\ tick = 0
    /\ values_in_collateral = << >>
    /\ values_in_debt = << >>
    /\ collateralizations = << >>
    /\ attempts = << >>

(***************************************************************************)
(* The CDP object under any sequence of method calls.  An exception ends   *)
(* the sequence: the object keeps the attributes it had when it was        *)
(* raised.                                                                 *)
(***************************************************************************)
Init ==
    /\ \E pos \in InitPositions, m \in MinRatios :
           vault = NewCDP(FromInt(pos[1]), FromInt(pos[2]), m)
    /\ last = NoCall
    /\ calls = 0
    /\ SimIdle
    /\ LibIdle

Running == last.ret # "fatal" /\ calls < MaxCalls

CallBoostTo ==
    /\ Running
    /\ \E target \in Targets, price \in Prices, gas \in GasPrices, fee \in ServiceFees :
           \E out \in {boostTo(vault, target, price, gas, fee)} :
               /\ vault' = out.vault
               /\ last' = Call("boostTo", RebalanceArgs(target, price, gas, fee), vault, out)
    /\ calls' = calls + 1
    /\ UNCHANGED << simVars, libVars >>

CallRepayTo ==
    /\ Running
    /\ \E target \in Targets, price \in Prices, gas \in GasPrices, fee \in ServiceFees :
           \E out \in {repayTo(vault, target, price, gas, fee)} :
               /\ vault' = out.vault
               /\ last' = Call("repayTo", RebalanceArgs(target, price, gas, fee), vault, out)
    /\ calls' = calls + 1
    /\ UNCHANGED << simVars, libVars >>

CallClose ==
    /\ Running
    /\ \E price \in Prices :
           \E out \in {close(vault, price)} :
               /\ vault' = out.vault
               /\ last' = Call("close", [NoArgs EXCEPT !.price = price], vault, out)
    /\ calls' = calls + 1
    /\ UNCHANGED << simVars, libVars >>

CallAutomate ==
    /\ Running
    /\ \E repay_from \in RepayFroms :
           LET repay_to == repay_from + 30
               boost_from == repay_from + 80
               boost_to == repay_from + 30
               out == automate(vault, repay_from, repay_to, boost_from, boost_to)
           IN  /\ vault' = out.vault
               /\ last' = Call("automate",
                               [NoArgs EXCEPT !.settings =
                                   [repay_from |-> repay_from, repay_to |-> repay_to,
                                    boost_from |-> boost_from, boost_to |-> boost_to]],
                               vault, out)
    /\ calls' = calls + 1
    /\ UNCHANGED << simVars, libVars >>

CallDisableAutomation ==
    /\ Running
    /\ LET out == disableAutomation(vault)
       IN  /\ vault' = out.vault
           /\ last' = Call("disableAutomation", NoArgs, vault, out)
    /\ calls' = calls + 1
    /\ UNCHANGED << simVars, libVars >>

Next ==
    \/ CallBoostTo
    \/ CallRepayTo
    \/ CallClose
    \/ CallAutomate
    \/ CallDisableAutomation

Spec == Init /\ [][Next]_vars

(***************************************************************************)
(* simulateLeveragedSingle (modules/simulate.py).  params holds the        *)
(* arguments of the call; tick is the number of prices of price_path the   *)
(* loop has taken; attempts[k] lists the CDP methods the loop called at    *)
(* its k-th price.                                                         *)
(***************************************************************************)
MaxPathLen == 3

SimPortfolioValues == {10, 100}
SimCollateralizations == {50, 80, 100, 200, 250}
SimSettings == {<< 160, 190, 240, 190 >>, << 170, 200, 250, 200 >>,
                << 170, 200, 1000, 200 >>}
SimPrices == {50, 100, 200}

RECURSIVE PathsOfLen(_)
PathsOfLen(n) ==
    IF n = 0 THEN {<< >>}
    ELSE {Append(path, price) : path \in PathsOfLen(n - 1), price \in SimPrices}

PricePaths == UNION {PathsOfLen(n) : n \in 1..MaxPathLen}

\* mutant: the solvency assert admits equality
SolvencyAssertNonStrict(v, price) == ~RLt(v.collateral, RDiv(v.debt, FromInt(price)))

\* assert vault.collateral > vault.debt/price
SolvencyAssert(v, price) == RGt(v.collateral, RDiv(v.debt, FromInt(price)))

\* mutant: the debt is multiplied by the price
ValueInCollateralTimesPrice(v, price) == RSub(v.collateral, RMul(v.debt, FromInt(price)))

\* vault.collateral - vault.debt/price
ValueInCollateral(v, price) == RSub(v.collateral, RDiv(v.debt, FromInt(price)))

\* price*(vault.collateral - vault.debt/price)
ValueInDebt(v, price) == RMul(FromInt(price), ValueInCollateral(v, price))

\* the collateralization appended for a tick
RecordedCollateralization(v, price) ==
    IF RGt(v.debt, Zero) THEN getCollateralizationRatio(v, price) ELSE Zero

\* What the automation branch of one loop iteration does: the position it
\* leaves, the methods it called (in order, as call records) and whether an
\* exception left the function.
TickOutcome(v, called, fatal) == [vault |-> v, called |-> called, fatal |-> fatal]

TickRepay(v, price, prm) ==
    LET args == RebalanceArgs(v.automation_settings.repay_to, price,
                              prm.gas_price, prm.service_fee)
        out == repayTo(v, args.target, price, prm.gas_price, prm.service_fee)
        repaid == Call("repayTo", args, v, out)
    IN  IF out.ret = "fatal" THEN TickOutcome(out.vault, << repaid >>, TRUE)
        ELSE IF ~out.vault.isAutomated
        THEN LET closed == close(out.vault, price)
             IN  TickOutcome(closed.vault,
                             << repaid, Call("close", [NoArgs EXCEPT !.price = price],
                                             out.vault, closed) >>,
                             FALSE)
        ELSE TickOutcome(out.vault, << repaid >>, FALSE)

TickBoost(v, price, prm) ==
    LET args == RebalanceArgs(v.automation_settings.boost_to, price,
                              prm.gas_price, prm.service_fee)
        out == boostTo(v, args.target, price, prm.gas_price, prm.service_fee)
    IN  TickOutcome(out.vault, << Call("boostTo", args, v, out) >>, out.ret = "fatal")

\* lines 63-70; getCollateralizationRatio divides by the debt, which raises
\* ZeroDivisionError on a position without debt
TickAutomation(v, price, prm) ==
    IF ~v.isAutomated THEN TickOutcome(v, << >>, FALSE)
    ELSE IF RIsZero(v.debt) THEN TickOutcome(v, << >>, TRUE)
    ELSE IF RGt(getCollateralizationRatio(v, price),
                FromInt(v.automation_settings.boost_from))
    THEN TickBoost(v, price, prm)
    ELSE IF RLt(getCollateralizationRatio(v, price),
                FromInt(v.automation_settings.repay_from))
    THEN TickRepay(v, price, prm)
    ELSE TickOutcome(v, << >>, FALSE)

OpsOf(called) == [k \in 1..Len(called) |-> called[k].op]

SimInit ==
    /\ \E ipv \in SimPortfolioValues, ic \in SimCollateralizations, m \in MinRatios,
          st \in SimSettings, fee \in ServiceFees, gas \in GasPrices, path \in PricePaths :
           /\ params = [init_portfolio_value |-> ipv, init_collateralization |-> ic,
                        min_ratio |-> m, repay_from |-> st[1], repay_to |-> st[2],
                        boost_from |-> st[3], boost_to |-> st[4], service_fee |-> fee,
                        gas_price |-> gas, price_path |-> path]
           /\ vault = NewCDP(FromInt(ipv), Zero, m)
    /\ last = NoCall
    /\ calls = 0
    /\ pc = "open"
    /\ tick = 0
    /\ values_in_collateral = << >>
    /\ values_in_debt = << >>
    /\ collateralizations = << >>
    /\ attempts = << >>
    /\ LibIdle

\* lines 56-60: the opening boost at price_path[0] with no gas and no fee,
\* automate, and the first element of each of the three lists
SimOpen ==
    /\ pc = "open"
    /\ \E opened \in {boostTo(vault, params.init_collateralization,
                              params.price_path[1], 0, 0)} :
           IF opened.ret = "fatal"
           THEN /\ vault' = opened.vault
                /\ last' = Call("boostTo",
                                RebalanceArgs(params.init_collateralization,
                                              params.price_path[1], 0, 0),
                                vault, opened)
                /\ pc' = "fatal"
                /\ UNCHANGED << values_in_collateral, values_in_debt, collateralizations >>
           ELSE \E automated \in {automate(opened.vault, params.repay_from, params.repay_to,
                                           params.boost_from, params.boost_to)} :
                    /\ vault' = automated.vault
                    /\ last' = Call("automate",
                                    [NoArgs EXCEPT !.settings =
                                        [repay_from |-> params.repay_from,
                                         repay_to |-> params.repay_to,
                                         boost_from |-> params.boost_from,
                                         boost_to |-> params.boost_to]],
                                    opened.vault, automated)
                    /\ IF automated.ret = "fatal"
                       THEN /\ pc' = "fatal"
                            /\ UNCHANGED << values_in_collateral, values_in_debt,
                                            collateralizations >>
                       ELSE /\ pc' = "loop"
                            /\ values_in_collateral' =
                                   << FromInt(params.init_portfolio_value) >>
                            /\ values_in_debt' =
                                   << FromInt(params.init_portfolio_value
                                              * params.price_path[1]) >>
                            /\ collateralizations' =
                                   << FromInt(params.init_collateralization) >>
    /\ UNCHANGED << calls, params, tick, attempts, libVars >>

\* lines 61-86: one iteration of the loop over price_path
SimTick ==
    /\ pc = "loop"
    /\ tick < Len(params.price_path)
    /\ LET price == params.price_path[tick + 1]
       IN  \E done \in {TickAutomation(vault, price, params)} :
               /\ vault' = done.vault
               /\ last' = IF done.called = << >> THEN last
                          ELSE done.called[Len(done.called)]
               /\ attempts' = Append(attempts, OpsOf(done.called))
               /\ tick' = tick + 1
               /\ IF done.fatal \/ ~SolvencyAssert(done.vault, price)
                  THEN /\ pc' = "fatal"
                       /\ UNCHANGED << values_in_collateral, values_in_debt,
                                       collateralizations >>
                  ELSE /\ pc' = "loop"
                       /\ values_in_collateral' =
                              Append(values_in_collateral,
                                     ValueInCollateral(done.vault, price))
                       /\ values_in_debt' =
                              Append(values_in_debt, ValueInDebt(done.vault, price))
                       /\ collateralizations' =
                              Append(collateralizations,
                                     RecordedCollateralization(done.vault, price))
    /\ UNCHANGED << calls, params, libVars >>

\* line 100: the three lists are returned
SimReturn ==
    /\ pc = "loop"
    /\ tick = Len(params.price_path)
    /\ pc' = "done"
    /\ UNCHANGED << vault, last, calls, params, tick, values_in_collateral,
                    values_in_debt, collateralizations, attempts, libVars >>

SimNext ==
    \/ SimOpen
    \/ SimTick
    \/ SimReturn

SimSpec == SimInit /\ [][SimNext]_vars

(***************************************************************************)
(* optimizeAutomationBoundedGBM (modules/optimize.py).  The two scipy       *)
(* searches and the Monte Carlo evaluation are choices from bounded sets:   *)
(* minimize_scalar returns some leverage, COBYLA returns some point that    *)
(* is feasible for the constraint functions it is given, and the final      *)
(* evaluation returns some list of per-path returns or raises.              *)
(***************************************************************************)
OptEvalPaths == 2

\* values of sol.x returned by minimize_scalar
OptLeverages == {Rat(1, 2), Rat(11, 10), FromInt(2), FromInt(3)}

\* values a threshold of the point returned by COBYLA can take
OptGrid == {Rat(n, 10) : n \in {1600, 1601, 1651, 1701, 1751, 10000, 10001}}

\* values of the return of one path of the final evaluation
OptReturns == {Rat(1, 2), One, Rat(3, 2)}

RLe(a, b) == ~RLt(b, a)

RECURSIVE RSum(_)
RSum(xs) == IF xs = << >> THEN Zero ELSE RAdd(xs[1], RSum(Tail(xs)))

\* np.mean of a non-empty list
Mean(xs) == RDiv(RSum(xs), FromInt(Len(xs)))

RECURSIVE ListsOfLen(_, _)
ListsOfLen(values, n) ==
    IF n = 0 THEN {<< >>}
    ELSE {Append(xs, x) : xs \in ListsOfLen(values, n - 1), x \in values}

\* x = [repay_from, repay_to, boost_from, boost_to]
constraint0(x, min_ratio) == RSub(RSub(x[1], FromInt(min_ratio)), Rat(101, 10))

constraint1(x, min_ratio) == RSub(RSub(x[2], x[1]), FromInt(5))

\* mutant: the 5 points between repay to and boost to are left out
constraint2NoMargin(x, min_ratio) == RSub(x[4], x[2])

constraint2(x, min_ratio) == RSub(RSub(x[4], x[2]), FromInt(5))

constraint3(x, min_ratio) == RSub(RSub(x[3], x[4]), FromInt(5))

constraint4(x, min_ratio) == RSub(FromInt(1000), x[3])

\* an 'ineq' constraint is satisfied when its function is non-negative
Feasible(x, min_ratio) ==
    /\ RLe(Zero, constraint0(x, min_ratio))
    /\ RLe(Zero, constraint1(x, min_ratio))
    /\ RLe(Zero, constraint2(x, min_ratio))
    /\ RLe(Zero, constraint3(x, min_ratio))
    /\ RLe(Zero, constraint4(x, min_ratio))

FeasiblePoints(min_ratio) ==
    {x \in OptGrid \X OptGrid \X OptGrid \X OptGrid : Feasible(x, min_ratio)}

\* if sol.x < 1: return 1
optimizeRatioContinuous(x) == IF RLt(x, One) THEN One ELSE x

\* lines 118-121
InitialGuess(R_init, min_ratio) ==
    IF RLt(R_init, FromInt(min_ratio + 10))
    THEN << FromInt(200), FromInt(220), FromInt(240), FromInt(220) >>
    ELSE << RSub(R_init, FromInt(5)), R_init, RAdd(R_init, FromInt(5)), R_init >>

NoThresholds == << Zero, Zero, Zero, Zero >>

\* mutant: the optimizer's point is returned whatever its mean return
OptResultNoSentinel(sol, optimal_expected_return_in_collateral) ==
    [thresholds |-> sol, expected_return |-> optimal_expected_return_in_collateral]

\* lines 131-133
OptResult(sol, optimal_expected_return_in_collateral) ==
    IF RLt(optimal_expected_return_in_collateral, One)
    THEN [thresholds |-> NoThresholds, expected_return |-> One]
    ELSE [thresholds |-> sol, expected_return |-> optimal_expected_return_in_collateral]

OptInit ==
    /\ \E m \in MinRatios :
           optimizer = [pc |-> "start", min_ratio |-> m, L |-> Zero, R_init |-> Zero,
                        initial_guess |-> << >>, sol |-> << >>, returns |-> << >>,
                        result |-> << >>]
    /\ vault = NewCDP(Zero, Zero, 0)
    /\ last = NoCall
    /\ calls = 0
    /\ SimIdle
    /\ ensemble = Idle
    /\ trend = Idle
    /\ gbm = Idle

\* line 114
OptRatio ==
    /\ optimizer.pc = "start"
    /\ \E x \in OptLeverages :
           optimizer' = [optimizer EXCEPT !.pc = "guess",
                                          !.L = optimizeRatioContinuous(x)]
    /\ UNCHANGED << vault, last, calls, simVars, ensemble, trend, gbm >>

\* lines 115-121; L = 1 is the integer 1 and L - 1 = 0 raises ZeroDivisionError
OptGuess ==
    /\ optimizer.pc = "guess"
    /\ IF RIsZero(RSub(optimizer.L, One))
       THEN optimizer' = [optimizer EXCEPT !.pc = "fatal"]
       ELSE LET R_init == RDiv(RMul(FromInt(100), optimizer.L), RSub(optimizer.L, One))
            IN  optimizer' = [optimizer EXCEPT
                                  !.pc = "minimize",
                                  !.R_init = R_init,
                                  !.initial_guess = InitialGuess(R_init, optimizer.min_ratio)]
    /\ UNCHANGED << vault, last, calls, simVars, ensemble, trend, gbm >>

\* lines 123-128
OptMinimize ==
    /\ optimizer.pc = "minimize"
    /\ \E x \in FeasiblePoints(optimizer.min_ratio) :
           optimizer' = [optimizer EXCEPT !.pc = "evaluate", !.sol = x]
    /\ UNCHANGED << vault, last, calls, simVars, ensemble, trend, gbm >>

\* lines 129-133; an exception of the simulation leaves the function
OptEvaluate ==
    /\ optimizer.pc = "evaluate"
    /\ \/ \E returns \in ListsOfLen(OptReturns, OptEvalPaths) :
              optimizer' = [optimizer EXCEPT
                                !.pc = "returned",
                                !.returns = returns,
                                !.result = OptResult(optimizer.sol, Mean(returns))]
       \/ optimizer' = [optimizer EXCEPT !.pc = "fatal"]
    /\ UNCHANGED << vault, last, calls, simVars, ensemble, trend, gbm >>

OptNext ==
    \/ OptRatio
    \/ OptGuess
    \/ OptMinimize
    \/ OptEvaluate

OptSpec == OptInit /\ [][OptNext]_vars

(***************************************************************************)
(* simulateLeveragedBoundedGBM and simulateLeveragedGBM                     *)
(* (modules/simulate.py).  Each iteration of their loop generates a price   *)
(* path, runs simulateLeveragedSingle on it (SimOpen, SimTick, SimReturn)   *)
(* and appends one element to each of the four lists.  The random paths of  *)
(* modules/pricegeneration.py are choices from bounded sets of paths.       *)
(***************************************************************************)
MaxPaths == 2

EnsPrices == {100, 200}
EnsCollateralizations == {200, 250}

RECURSIVE EnsPathsOfLen(_)
EnsPathsOfLen(n) ==
    IF n = 0 THEN {<< >>}
    ELSE {Append(path, price) : path \in EnsPathsOfLen(n - 1), price \in EnsPrices}

\* a path of N points; every point is random
generateGBM(N) == EnsPathsOfLen(N)

\* a path of N points; the bridge W - (t/T)*W[-1] vanishes at the last point
\* when t reaches T there (N >= 2), which puts the last price on end
generateBoundedGBM(N, end) ==
    IF N >= 2 THEN {path \in EnsPathsOfLen(N) : path[N] = end}
    ELSE EnsPathsOfLen(N)

GeneratedPaths(e) ==
    IF e.kind = "simulateLeveragedBoundedGBM" THEN generateBoundedGBM(e.N, e.end_price)
    ELSE generateGBM(e.N)

RECURSIVE RMinOf(_)
RMinOf(xs) ==
    IF Len(xs) = 1 THEN xs[1]
    ELSE LET m == RMinOf(Tail(xs)) IN IF RLt(xs[1], m) THEN xs[1] ELSE m

RECURSIVE RMaxOf(_)
RMaxOf(xs) ==
    IF Len(xs) = 1 THEN xs[1]
    ELSE LET m == RMaxOf(Tail(xs)) IN IF RLt(m, xs[1]) THEN xs[1] ELSE m

\* values[-1]/values[0]
PathReturn(values) == RDiv(values[Len(values)], values[1])

\* 100*(1 - min(values)/max(values))
MaxLoss(values) ==
    RMul(FromInt(100), RSub(One, RDiv(RMinOf(values), RMaxOf(values))))

EnsInit ==
    /\ \E ic \in EnsCollateralizations, end_price \in EnsPrices,
          kind \in {"simulateLeveragedBoundedGBM", "simulateLeveragedGBM"},
          N_paths \in 0..MaxPaths, N \in 1..MaxPathLen :
           /\ params = [init_portfolio_value |-> 100, init_collateralization |-> ic,
                        min_ratio |-> 150, repay_from |-> 170, repay_to |-> 200,
                        boost_from |-> 250, boost_to |-> 200, service_fee |-> 0,
                        gas_price |-> 0, price_path |-> << >>]
           /\ ensemble = [pc |-> "run", kind |-> kind, N_paths |-> N_paths, N |-> N,
                          end_price |-> end_price,
                          returns_in_collateral_asset |-> << >>,
                          returns_in_debt_asset |-> << >>,
                          max_losses_in_collateral_asset |-> << >>,
                          max_losses_in_debt_asset |-> << >>,
                          earlier |-> << >>]
    /\ vault = NewCDP(Zero, Zero, 0)
    /\ last = NoCall
    /\ calls = 0
    /\ pc = "generate"
    /\ tick = 0
    /\ values_in_collateral = << >>
    /\ values_in_debt = << >>
    /\ collateralizations = << >>
    /\ attempts = << >>
    /\ optimizer = Idle
    /\ trend = Idle
    /\ gbm = Idle

\* the head of the loop: one more path is generated and simulateLeveragedSingle
\* is entered with it (simulate.py line 54 creates its CDP)
EnsGenerate ==
    /\ ensemble.pc = "run"
    /\ pc = "generate"
    /\ Len(ensemble.returns_in_collateral_asset) < ensemble.N_paths
    /\ \E path \in GeneratedPaths(ensemble) :
           params' = [params EXCEPT !.price_path = path]
    /\ vault' = NewCDP(FromInt(params.init_portfolio_value), Zero, params.min_ratio)
    /\ last' = NoCall
    /\ tick' = 0
    /\ attempts' = << >>
    /\ pc' = "open"
    /\ UNCHANGED << calls, values_in_collateral, values_in_debt, collateralizations,
                    libVars >>

\* the four appends that follow the return of simulateLeveragedSingle
EnsRecord ==
    /\ ensemble.pc = "run"
    /\ pc = "done"
    /\ ensemble' =
           [ensemble EXCEPT
                !.returns_in_collateral_asset = Append(@, PathReturn(values_in_collateral)),
                !.returns_in_debt_asset = Append(@, PathReturn(values_in_debt)),
                !.max_losses_in_collateral_asset = Append(@, MaxLoss(values_in_collateral)),
                !.max_losses_in_debt_asset = Append(@, MaxLoss(values_in_debt))]
    /\ pc' = "generate"
    /\ UNCHANGED << vault, last, calls, params, tick, values_in_collateral,
                    values_in_debt, collateralizations, attempts, optimizer, trend, gbm >>

\* the loop is over: the four lists are returned
EnsReturn ==
    /\ ensemble.pc = "run"
    /\ pc = "generate"
    /\ Len(ensemble.returns_in_collateral_asset) = ensemble.N_paths
    /\ ensemble' = [ensemble EXCEPT !.pc = "returned"]
    /\ pc' = "returned"
    /\ UNCHANGED << vault, last, calls, params, tick, values_in_collateral,
                    values_in_debt, collateralizations, attempts, optimizer, trend, gbm >>

\* what a call returned: the four lists
EnsResults(e) ==
    [returns_in_collateral_asset |-> e.returns_in_collateral_asset,
     returns_in_debt_asset |-> e.returns_in_debt_asset,
     max_losses_in_collateral_asset |-> e.max_losses_in_collateral_asset,
     max_losses_in_debt_asset |-> e.max_losses_in_debt_asset]

\* the caller repeats a call with N_paths = 1, with the same arguments: the
\* functions take no seed and no random source, np.random draws from the
\* module's global generator, so the new path is again any path; earlier
\* keeps what the first call returned
EnsCallAgain ==
    /\ ensemble.pc = "returned"
    /\ pc = "returned"
    /\ ensemble.N_paths = 1
    /\ ensemble.earlier = << >>
    /\ ensemble' = [ensemble EXCEPT !.pc = "run",
                                    !.earlier = << EnsResults(ensemble) >>,
                                    !.returns_in_collateral_asset = << >>,
                                    !.returns_in_debt_asset = << >>,
                                    !.max_losses_in_collateral_asset = << >>,
                                    !.max_losses_in_debt_asset = << >>]
    /\ pc' = "generate"
    /\ UNCHANGED << vault, last, calls, params, tick, values_in_collateral,
                    values_in_debt, collateralizations, attempts, optimizer, trend, gbm >>

EnsNext ==
    \/ EnsGenerate
    \/ SimOpen
    \/ SimTick
    \/ SimReturn
    \/ EnsRecord
    \/ EnsReturn
    \/ EnsCallAgain

EnsSpec == EnsInit /\ [][EnsNext]_vars

(***************************************************************************)
(* createUptrend and createDowntrend (modules/pricegeneration.py).          *)
(* sys.exit raises SystemExit: the function ends without a return value.    *)
(***************************************************************************)
MaxCorrections == 2

SegmentPoints == 1000

TrendPrices == {0, 100, 200, 300}
TrendAmplitudes == {0, 10, 50, 100}

\* element k (from 1) of np.linspace(start, stop, num), num >= 2
LinspaceAt(start, stop, num, k) ==
    RAdd(start, RMul(Rat(k - 1, num - 1), RSub(stop, start)))

linspace(start, stop, num) == [k \in 1..num |-> LinspaceAt(start, stop, num, k)]

\* np.round of a non-negative number, as an integer: halves go to the even
\* neighbour
Round(x) ==
    LET lo == x[1] \div x[2]
        twice == 2 * (x[1] % x[2])
    IN  IF twice < x[2] THEN lo
        ELSE IF twice > x[2] THEN lo + 1
        ELSE IF lo % 2 = 0 THEN lo ELSE lo + 1

\* indices = np.round(np.linspace(1, len(init_array) - 2, n + 2)).astype(int)[1:]
CorrectionIndices(n) ==
    [k \in 1..(n + 1) |->
        Round(LinspaceAt(One, FromInt(SegmentPoints - 2), n + 2, k + 1))]

\* mutant: the bounds 0 and 100 are admitted
AmplitudesValidNonStrict(amplitude_list) ==
    \A k \in 1..Len(amplitude_list) : 0 <= amplitude_list[k] /\ amplitude_list[k] <= 100

\* all(0 < amplitude < 100 for amplitude in amplitude_list)
AmplitudesValid(amplitude_list) ==
    \A k \in 1..Len(amplitude_list) : 0 < amplitude_list[k] /\ amplitude_list[k] < 100

\* the if/elif chain of createUptrend: the branch that calls sys.exit
UptrendInputError(init_price, final_price, n_corrections, amplitude_list) ==
    IF init_price <= 0 \/ final_price <= 0 THEN "prices"
    ELSE IF final_price <= init_price THEN "order"
    ELSE IF ~AmplitudesValid(amplitude_list) THEN "amplitudes"
    ELSE IF Len(amplitude_list) # n_corrections THEN "length"
    ELSE "none"

\* the if/elif chain of createDowntrend
DowntrendInputError(init_price, final_price, n_bounces, amplitude_list) ==
    IF init_price <= 0 \/ final_price <= 0 THEN "prices"
    ELSE IF final_price >= init_price THEN "order"
    ELSE IF ~AmplitudesValid(amplitude_list) THEN "amplitudes"
    ELSE IF Len(amplitude_list) # n_bounces THEN "length"
    ELSE "none"

\* local_extrema: init_array[0], then each threshold but the last followed by
\* its corrected value (factor 1 + sign*amplitude/100), then the last element
\* of init_array
LocalExtrema(init_array, n, amplitude_list, sign) ==
    LET indices == CorrectionIndices(n)
        thresholds == [k \in 1..(n + 1) |-> init_array[indices[k] + 1]]
    IN  [j \in 1..(2 * n + 2) |->
            IF j = 1 THEN init_array[1]
            ELSE IF j = 2 * n + 2 THEN init_array[Len(init_array)]
            ELSE LET i == j \div 2
                 IN  IF j % 2 = 0 THEN thresholds[i]
                     ELSE RMul(thresholds[i],
                               RAdd(One, Rat(sign * amplitude_list[i], 100)))]

\* one linspace of SegmentPoints points between each two consecutive extrema
PriceAction(local_extrema) ==
    [k \in 1..(SegmentPoints * (Len(local_extrema) - 1)) |->
        LET i == ((k - 1) \div SegmentPoints) + 1
        IN  LinspaceAt(local_extrema[i], local_extrema[i + 1], SegmentPoints,
                       ((k - 1) % SegmentPoints) + 1)]

TrendArray(init_price, final_price, n, amplitude_list, sign) ==
    LET init_array == linspace(FromInt(init_price), FromInt(final_price), SegmentPoints)
    IN  IF n # 0
        THEN PriceAction(LocalExtrema(init_array, n, amplitude_list, sign))
        ELSE init_array

TrendResult(ret, priceArray) == [ret |-> ret, priceArray |-> priceArray]

createUptrend(init_price, final_price, n_corrections, amplitude_list) ==
    IF UptrendInputError(init_price, final_price, n_corrections, amplitude_list) # "none"
    THEN TrendResult("exit", << >>)
    ELSE TrendResult("array",
                     TrendArray(init_price, final_price, n_corrections, amplitude_list, -1))

createDowntrend(init_price, final_price, n_bounces, amplitude_list) ==
    IF DowntrendInputError(init_price, final_price, n_bounces, amplitude_list) # "none"
    THEN TrendResult("exit", << >>)
    ELSE TrendResult("array",
                     TrendArray(init_price, final_price, n_bounces, amplitude_list, 1))

RECURSIVE AmplitudeLists(_)
AmplitudeLists(n) ==
    IF n = 0 THEN {<< >>}
    ELSE {Append(xs, x) : xs \in AmplitudeLists(n - 1), x \in TrendAmplitudes}

TrendInit ==
    /\ \E fn \in {"createUptrend", "createDowntrend"},
          init_price \in TrendPrices, final_price \in TrendPrices,
          n \in 0..MaxCorrections, len \in 0..MaxCorrections :
           \E amplitude_list \in AmplitudeLists(len) :
               trend = [pc |-> "call", fn |-> fn, init_price |-> init_price,
                        final_price |-> final_price, n |-> n,
                        amplitude_list |-> amplitude_list, priceArray |-> << >>]
    /\ vault = NewCDP(Zero, Zero, 0)
    /\ last = NoCall
    /\ calls = 0
    /\ SimIdle
    /\ ensemble = Idle
    /\ optimizer = Idle
    /\ gbm = Idle

CreateUptrend ==
    /\ trend.pc = "call"
    /\ trend.fn = "createUptrend"
    /\ \E out \in {createUptrend(trend.init_price, trend.final_price, trend.n,
                                 trend.amplitude_list)} :
           trend' = [trend EXCEPT !.pc = IF out.ret = "exit" THEN "exit" ELSE "returned",
                                  !.priceArray = out.priceArray]
    /\ UNCHANGED << vault, last, calls, simVars, ensemble, optimizer, gbm >>

CreateDowntrend ==
    /\ trend.pc = "call"
    /\ trend.fn = "createDowntrend"
    /\ \E out \in {createDowntrend(trend.init_price, trend.final_price, trend.n,
                                   trend.amplitude_list)} :
           trend' = [trend EXCEPT !.pc = IF out.ret = "exit" THEN "exit" ELSE "returned",
                                  !.priceArray = out.priceArray]
    /\ UNCHANGED << vault, last, calls, simVars, ensemble, optimizer, gbm >>

TrendNext ==
    \/ CreateUptrend
    \/ CreateDowntrend

TrendSpec == TrendInit /\ [][TrendNext]_vars

(***************************************************************************)
(* generateBoundedGBM (modules/pricegeneration.py).  gbm holds the locals   *)
(* of one call.  The normal draws come from a small set of integers; W is   *)
(* kept in units of sqrt(dt).  The exponent X of a point is kept by its     *)
(* coefficients: log, the multiple of ln(end/start); sigma2, the multiple   *)
(* of sigma**2; noise, the multiple of sigma*sqrt(dt).  The point's price   *)
(* is start*exp(X), which is end when X is ln(end/start).                   *)
(***************************************************************************)
MaxHorizon == 3
GbmSteps == {1, 2, 3}
GbmDraws == {-1, 0, 1, 2}

RECURSIVE DrawsOfLen(_)
DrawsOfLen(n) ==
    IF n = 0 THEN {<< >>}
    ELSE {Append(zs, z) : zs \in DrawsOfLen(n - 1), z \in GbmDraws}

\* N = round(T/dt)
GbmPoints(T, dt) == Round(Rat(T, dt))

\* t = np.linspace(0, T, N); a single point is the start, 0
GbmTimes(T, N) ==
    [k \in 1..N |-> IF N = 1 THEN Zero ELSE LinspaceAt(Zero, FromInt(T), N, k)]

\* np.cumsum
RECURSIVE cumsum(_)
cumsum(zs) ==
    IF Len(zs) = 0 THEN << >>
    ELSE LET front == cumsum(SubSeq(zs, 1, Len(zs) - 1))
         IN  Append(front,
                    IF Len(front) = 0 THEN FromInt(zs[1])
                    ELSE RAdd(front[Len(front)], FromInt(zs[Len(zs)])))

\* W = W - (t/T)*W[-1]
Bridge(W, t, T) ==
    [k \in 1..Len(W) |-> RSub(W[k], RMul(RDiv(t[k], FromInt(T)), W[Len(W)]))]

\* mu - 0.5*sigma**2 with mu = (1/T)*np.log(end/start) + (sigma**2)/2
GbmDrift(T) == [log |-> Rat(1, T), sigma2 |-> RSub(Rat(1, 2), Rat(1, 2))]

\* X = (mu-0.5*sigma**2)*t + sigma*W
GbmExponent(T, t, W) ==
    [k \in 1..Len(W) |-> [log |-> RMul(GbmDrift(T).log, t[k]),
                          sigma2 |-> RMul(GbmDrift(T).sigma2, t[k]),
                          noise |-> W[k]]]

GbmInit ==
    /\ \E T \in 1..MaxHorizon, dt \in GbmSteps :
           gbm = [pc |-> "draw", T |-> T, dt |-> dt, N |-> 0, t |-> << >>,
                  W |-> << >>, X |-> << >>]
    /\ vault = NewCDP(Zero, Zero, 0)
    /\ last = NoCall
    /\ calls = 0
    /\ SimIdle
    /\ ensemble = Idle
    /\ optimizer = Idle
    /\ trend = Idle

\* lines 206-211
GbmDraw ==
    /\ gbm.pc = "draw"
    /\ LET N == GbmPoints(gbm.T, gbm.dt)
       IN  \E zs \in DrawsOfLen(N) :
               gbm' = [gbm EXCEPT !.pc = "bridge", !.N = N,
                                  !.t = GbmTimes(gbm.T, N), !.W = cumsum(zs)]
    /\ UNCHANGED << vault, last, calls, simVars, ensemble, optimizer, trend >>

\* lines 212-215; W[-1] of an empty array raises IndexError
GbmBridge ==
    /\ gbm.pc = "bridge"
    /\ IF gbm.N = 0
       THEN gbm' = [gbm EXCEPT !.pc = "fatal"]
       ELSE LET W == Bridge(gbm.W, gbm.t, gbm.T)
            IN  gbm' = [gbm EXCEPT !.pc = "returned", !.W = W,
                                   !.X = GbmExponent(gbm.T, gbm.t, W)]
    /\ UNCHANGED << vault, last, calls, simVars, ensemble, optimizer, trend >>

GbmNext ==
    \/ GbmDraw
    \/ GbmBridge

GbmSpec == GbmInit /\ [][GbmNext]_vars

(***************************************************************************)
(* Properties.                                                             *)
(***************************************************************************)
IsRebalance == last.op \in {"boostTo", "repayTo"}

\* the ratio collateral*price/debt of position v (debt # 0) as a fraction
RatioAt(v, price) == RDiv(RMul(v.collateral, FromInt(price)), v.debt)

\* the price the simulator's loop takes next
NextPrice == params.price_path[tick + 1]

\* C1: in simulateLeveragedSingle, after the position is opened and automate
\* has been called, every tick whose ratio exceeds boost_from calls boostTo
\* and every other tick whose ratio is below repay_from calls repayTo.
C1_TickAttemptsRebalance ==
    [][(pc = "loop" /\ tick < Len(params.price_path) /\ RGt(vault.debt, Zero))
        => /\ RGt(getCollateralizationRatio(vault, NextPrice), FromInt(params.boost_from))
              => \E k \in 1..Len(attempts'[tick + 1]) : attempts'[tick + 1][k] = "boostTo"
           /\ (/\ ~RGt(getCollateralizationRatio(vault, NextPrice),
                       FromInt(params.boost_from))
               /\ RLt(getCollateralizationRatio(vault, NextPrice),
                      FromInt(params.repay_from)))
              => \E k \in 1..Len(attempts'[tick + 1]) : attempts'[tick + 1][k] = "repayTo"
      ]_vars

\* C2: after an automate call that passes its precondition the flag the
\* simulator reads and repayTo clears, isAutomated, is true.
C2_AutomateSetsIsAutomated ==
    (last.op = "automate" /\ last.ret = "None") => vault.isAutomated

\* C3: whenever boostTo returns True the position's ratio at the price of the
\* call equals target/100 exactly.
C3_BoostLandsOnTarget ==
    (last.op = "boostTo" /\ last.ret = "True")
        => RatioAt(vault, last.args.price) = Rat(last.args.target, 100)

\* a boost from zero debt, with a gas price above the cap and a service fee
C3_Witness ==
    /\ last.op = "boostTo"
    /\ last.ret = "True"
    /\ RIsZero(last.pre.debt)
    /\ last.args.gas_price_in_gwei > GasCapGwei
    /\ last.args.service_fee > 0

\* C4: whenever repayTo returns True, through the gas gate or through the
\* emergency override (clamped gas included), the position's ratio at the
\* price of the call equals target/100 exactly.
C4_RepayLandsOnTarget ==
    (last.op = "repayTo" /\ last.ret = "True")
        => RatioAt(vault, last.args.price) = Rat(last.args.target, 100)

\* an emergency repay whose gas value was clamped, with a service fee
C4_Witness ==
    /\ last.op = "repayTo"
    /\ last.ret = "True"
    /\ last.emergency
    /\ last.g # GasCost(last.args.gas_price_in_gwei)
    /\ last.args.service_fee > 0

\* C5: close on a position with debt > 0 leaves debt = 0 and collateral =
\* prior collateral - prior debt/price and returns that collateral; with
\* debt = 0 it changes neither and returns the collateral.
C5_CloseRepaysAllDebt ==
    last.op = "close"
        => /\ last.returned = vault.collateral
           /\ IF RGt(last.pre.debt, Zero)
              THEN /\ vault.debt = Zero
                   /\ vault.collateral =
                          RSub(last.pre.collateral,
                               RDiv(last.pre.debt, FromInt(last.args.price)))
              ELSE /\ vault.debt = last.pre.debt
                   /\ vault.collateral = last.pre.collateral

\* a close that found a debt to repay, at a price other than 1
C5_Witness ==
    /\ last.op = "close"
    /\ RGt(last.pre.debt, Zero)
    /\ vault.collateral # last.pre.collateral

\* C6: whenever boostTo or repayTo returns False, collateral, debt, the
\* automation flags and the automation settings are what they were before.
C6_FalseLeavesPositionUnchanged ==
    (IsRebalance /\ last.ret = "False") => vault = last.pre

\* a boost that passed eligibility and was stopped by the gas gate
C6_Witness ==
    /\ last.op = "boostTo"
    /\ last.ret = "False"
    /\ RGt(last.pre.debt, Zero)
    /\ RLt(Rat(last.args.target, 100), RatioAt(last.pre, last.args.price))

C8_RepayBelowFloorDisablesAutomation ==
    (/\ last.op = "repayTo"
     /\ last.ret = "True"
     /\ RLt(vault.debt, FromInt(vault.min_automation_debt)))
        => (~vault.isAutomated /\ ~vault.automated)

\* C10: in simulateLeveragedSingle every value recorded for a tick was
\* recorded with collateral > debt/price at that tick's price, and the tick
\* that fails this (or raises) appends nothing and ends the run.
C10_RecordedOnlyWhenSolvent ==
    /\ pc \in {"loop", "done"}
        => /\ Len(values_in_collateral) = tick + 1
           /\ Len(values_in_debt) = tick + 1
           /\ Len(collateralizations) = tick + 1
           /\ tick >= 1 => SolvencyAssert(vault, params.price_path[tick])
           /\ \A k \in 2..(tick + 1) :
                  /\ RGt(values_in_collateral[k], Zero)
                  /\ RGt(values_in_debt[k], Zero)
    /\ (pc = "fatal" /\ tick >= 1)
        => /\ Len(values_in_collateral) = tick
           /\ Len(values_in_debt) = tick
           /\ Len(collateralizations) = tick
           /\ \A k \in 2..tick :
                  /\ RGt(values_in_collateral[k], Zero)
                  /\ RGt(values_in_debt[k], Zero)
    /\ pc = "fatal" => ~ENABLED SimNext

\* the run aborted on the solvency assert after a tick had been recorded
C10_Witness ==
    /\ pc = "fatal"
    /\ tick >= 2
    /\ ~SolvencyAssert(vault, params.price_path[tick])

\* the position after the update of boostTo or repayTo, recomputed from the
\* position before the call and the deltas of the call
UpdatedPosition ==
    IF last.op = "boostTo"
    THEN [collateral |-> RAdd(last.pre.collateral, last.deltaCollateral),
          debt |-> RAdd(last.pre.debt, last.deltaDebt)]
    ELSE [collateral |-> RSub(last.pre.collateral, last.deltaCollateral),
          debt |-> RSub(last.pre.debt, last.deltaDebt)]

\* the call ended on one of the two asserts that follow the update
PositivityFailure ==
    /\ IsRebalance
    /\ last.ret = "fatal"
    /\ last.op = "repayTo" => RGt(last.pre.debt, Zero)
    /\ ~(RIsZero(last.deltaDebt) /\ RIsZero(last.deltaCollateral))
    /\ ~(RGt(UpdatedPosition.collateral, Zero) /\ RGt(UpdatedPosition.debt, Zero))

\* C11: when boostTo or repayTo ends on the failed assert that the resulting
\* collateral and debt are positive, collateral, debt and the automation flag
\* are what they were before the call.
C11_FatalLeavesPositionUnchanged ==
    PositivityFailure
        => /\ vault.collateral = last.pre.collateral
           /\ vault.debt = last.pre.debt
           /\ vault.isAutomated = last.pre.isAutomated

\* C12: repayTo on a position whose debt is 0 ends in a fatal error for every
\* target, price, gas price and fee: it returns neither True nor False, and
\* collateral, debt and the automation flag are unchanged.
C12_RepayWithoutDebtIsFatal ==
    (last.op = "repayTo" /\ RIsZero(last.pre.debt))
        => /\ last.ret = "fatal"
           /\ vault.collateral = last.pre.collateral
           /\ vault.debt = last.pre.debt
           /\ vault.isAutomated = last.pre.isAutomated

\* a repayTo on a position that close had left without debt
C12_Witness ==
    /\ last.op = "repayTo"
    /\ calls = 2
    /\ RIsZero(last.pre.debt)
    /\ RGt(last.pre.collateral, Zero)
    /\ \A pos \in InitPositions : last.pre.collateral # FromInt(pos[1])

\* the repayTo call recorded in last is an emergency repay: debt > 0 and a
\* ratio below the target and below min_ratio + 10
EmergencyRepayCall ==
    /\ last.op = "repayTo"
    /\ RGt(last.pre.debt, Zero)
    /\ RLt(RatioAt(last.pre, last.args.price), Rat(last.args.target, 100))
    /\ RLt(RMul(FromInt(100), RatioAt(last.pre, last.args.price)),
           FromInt(last.pre.min_ratio + EmergencyMargin))

\* one of the two divisors of repayTo is zero for the target and fee of the call
RepayZeroDivisor ==
    LET t == Rat(last.args.target, 100)
        gamma == Gamma(last.args.service_fee)
    IN  \/ RIsZero(RSub(RMul(FromInt(5), RSub(RMul(gamma, t), One)), t))
        \/ RIsZero(RSub(RMul(gamma, t), One))

CappedGasCall ==
    /\ IsRebalance
    /\ last.args.gas_price_in_gwei > GasCapGwei
    /\ ~EmergencyRepayCall

\* the same call, on the same position, with a gas price of exactly 499 gwei
SameCallAtCap ==
    IF last.op = "boostTo"
    THEN boostTo(last.pre, last.args.target, last.args.price, GasCapGwei,
                 last.args.service_fee)
    ELSE repayTo(last.pre, last.args.target, last.args.price, GasCapGwei,
                 last.args.service_fee)

\* C14 as stated: boostTo and non-emergency repayTo called with a gas price
\* above 499 give the return value, collateral and debt of the same call with
\* a gas price of exactly 499.
C14_GasAboveCapSameAsCap ==
    CappedGasCall
        => /\ last.ret = SameCallAtCap.ret
           /\ vault.collateral = SameCallAtCap.vault.collateral
           /\ vault.debt = SameCallAtCap.vault.debt

\* C14 amended: the cap applies to the gas charged, not to the gas gate.  A
\* boostTo or non-emergency repayTo called with a gas price above 499 either
\* gives the return value, collateral and debt of the same call with a gas
\* price of exactly 499, or is refused by the gas gate (returns False and
\* changes nothing) where the call with 499 passes the gate.
C14_GasChargedIsCapped ==
    CappedGasCall
        => \/ /\ last.ret = SameCallAtCap.ret
              /\ vault.collateral = SameCallAtCap.vault.collateral
              /\ vault.debt = SameCallAtCap.vault.debt
           \/ /\ last.ret = "False"
              /\ vault = last.pre
              /\ SameCallAtCap.ret \in {"True", "fatal"}

\* a boost performed with a gas price above the cap on a position with debt
C14_Witness ==
    /\ CappedGasCall
    /\ last.op = "boostTo"
    /\ last.ret = "True"
    /\ RGt(last.pre.debt, Zero)
    /\ last.g = GasCost(GasCapGwei)

\* C15: whenever boostTo returns True with target/100 > gamma, the gas cost
\* price*g, g being the gas value used in the deltas, is strictly less than
\* 20% of deltaDebt.
C15_BoostGasBelowFifthOfDebt ==
    (/\ last.op = "boostTo"
     /\ last.ret = "True"
     /\ RGt(Rat(last.args.target, 100), Gamma(last.args.service_fee)))
        => RLt(RMul(FromInt(last.args.price), last.g),
               RMul(Rat(1, 5), last.deltaDebt))

\* a boost performed with a gas charge, a service fee and a debt to start from
C15_Witness ==
    /\ last.op = "boostTo"
    /\ last.ret = "True"
    /\ RGt(Rat(last.args.target, 100), Gamma(last.args.service_fee))
    /\ RGt(last.g, Zero)
    /\ last.args.service_fee > 0
    /\ RGt(last.pre.debt, Zero)

\* C16 as stated: the thresholds optimizeAutomationBoundedGBM returns are the
\* all-zero sentinel or satisfy repayFrom >= minRatio + 10.1, repayTo >=
\* repayFrom + 5, boostFrom >= repayTo + 5, boostTo >= boostFrom + 5 and
\* boostFrom <= 1000.
C16_ThresholdsOrdered ==
    optimizer.pc = "returned"
        => LET x == optimizer.result.thresholds
           IN  \/ x = NoThresholds
               \/ /\ RLe(RAdd(FromInt(optimizer.min_ratio), Rat(101, 10)), x[1])
                  /\ RLe(RAdd(x[1], FromInt(5)), x[2])
                  /\ RLe(RAdd(x[2], FromInt(5)), x[3])
                  /\ RLe(RAdd(x[3], FromInt(5)), x[4])
                  /\ RLe(x[3], FromInt(1000))

\* C16 amended: the thresholds optimizeAutomationBoundedGBM returns are the
\* all-zero sentinel or satisfy repayFrom >= minRatio + 10.1, repayTo >=
\* repayFrom + 5, boostTo >= repayTo + 5, boostFrom >= boostTo + 5 and
\* boostFrom <= 1000.
C16_ThresholdsFeasible ==
    optimizer.pc = "returned"
        => LET x == optimizer.result.thresholds
           IN  \/ x = NoThresholds
               \/ /\ RLe(RAdd(FromInt(optimizer.min_ratio), Rat(101, 10)), x[1])
                  /\ RLe(RAdd(x[1], FromInt(5)), x[2])
                  /\ RLe(RAdd(x[2], FromInt(5)), x[4])
                  /\ RLe(RAdd(x[4], FromInt(5)), x[3])
                  /\ RLe(x[3], FromInt(1000))

\* thresholds are returned that sit on the bounds: repay from at min_ratio +
\* 10.1 and boost from at 1000
C16_Witness ==
    /\ optimizer.pc = "returned"
    /\ optimizer.result.thresholds # NoThresholds
    /\ optimizer.result.thresholds[1] = Rat(1601, 10)
    /\ optimizer.result.thresholds[3] = FromInt(1000)

RECURSIVE PeakToTrough(_)
PeakToTrough(values) ==
    IF Len(values) <= 1 THEN Zero
    ELSE LET rest == PeakToTrough(Tail(values))
             here == RMul(FromInt(100),
                          RSub(One, RDiv(RMinOf(Tail(values)), values[1])))
         IN  IF RLt(rest, here) THEN here ELSE rest

\* C18: each per-path drawdown returned by simulateLeveragedBoundedGBM /
\* simulateLeveragedGBM is the largest percentage decline of that path's
\* value trajectory from a recorded value to a later recorded value, in the
\* collateral asset and in the debt asset; it is 0 for a trajectory that
\* never decreases.
C18_MaxLossIsPeakToTrough ==
    (/\ ensemble.pc = "run"
     /\ pc = "generate"
     /\ Len(ensemble.max_losses_in_collateral_asset) >= 1)
        => /\ ensemble.max_losses_in_collateral_asset[
                  Len(ensemble.max_losses_in_collateral_asset)]
                  = PeakToTrough(values_in_collateral)
           /\ ensemble.max_losses_in_debt_asset[
                  Len(ensemble.max_losses_in_debt_asset)]
                  = PeakToTrough(values_in_debt)

\* the input of the call is invalid: a non-positive price, the wrong order
\* of the two prices for the function, an amplitude outside (0, 100), or an
\* amplitude list whose length is not the requested count
TrendInputInvalid ==
    \/ trend.init_price <= 0
    \/ trend.final_price <= 0
    \/ trend.fn = "createUptrend" /\ trend.final_price <= trend.init_price
    \/ trend.fn = "createDowntrend" /\ trend.final_price >= trend.init_price
    \/ \E k \in 1..Len(trend.amplitude_list) :
           trend.amplitude_list[k] <= 0 \/ trend.amplitude_list[k] >= 100
    \/ Len(trend.amplitude_list) # trend.n

\* C19: createUptrend and createDowntrend reject every invalid input before
\* any path is generated: the call ends in an error and hands back no price
\* array.
C19_InvalidInputRejected ==
    (trend.pc \in {"exit", "returned"} /\ TrendInputInvalid)
        => (trend.pc = "exit" /\ trend.priceArray = << >>)

\* a call rejected for the length of its amplitude list alone, with a count
\* of 0 that would otherwise skip every use of the list
C19_Witness ==
    /\ trend.pc = "exit"
    /\ trend.init_price > 0
    /\ trend.final_price > 0
    /\ trend.fn = "createDowntrend"
    /\ trend.final_price < trend.init_price
    /\ \A k \in 1..Len(trend.amplitude_list) :
           0 < trend.amplitude_list[k] /\ trend.amplitude_list[k] < 100
    /\ trend.n = 0
    /\ Len(trend.amplitude_list) = 2

\* C20: for every valid input createUptrend and createDowntrend return an
\* array of exactly 1000*(n + 1) points, n being the number of corrections
\* or bounces.
C20_ArrayLength ==
    trend.pc = "returned" => Len(trend.priceArray) = 1000 * (trend.n + 1)

\* C21: two calls of the ensemble simulator with N_paths = 1 and the same
\* explicit arguments return the same results: the generated path, and with
\* it the returns and the max losses, depend on nothing but the arguments.
C21_SameArgumentsSameResults ==
    (ensemble.pc = "returned" /\ ensemble.earlier # << >>)
        => EnsResults(ensemble) = ensemble.earlier[1]

\* the position a boost without gas and without fee opens from
\* init_portfolio_value units of collateral at price_path[0], for a target
\* above 100%: debt0 = value*price/(target/100 - 1), collateral0 = value +
\* debt0/price
OpeningPosition ==
    LET value == FromInt(params.init_portfolio_value)
        p == FromInt(params.price_path[1])
        debt0 == RDiv(RMul(value, p),
                      RSub(Rat(params.init_collateralization, 100), One))
    IN  [collateral |-> RAdd(value, RDiv(debt0, p)), debt |-> debt0]

\* at none of the ticks taken so far is the ratio of the opening position
\* above boost_from or below repay_from
NoTickPastThresholds ==
    \A k \in 1..tick :
        LET ratio == RDiv(RMul(FromInt(100),
                               RMul(OpeningPosition.collateral,
                                    FromInt(params.price_path[k]))),
                          OpeningPosition.debt)
        IN  /\ ~RGt(ratio, FromInt(params.boost_from))
            /\ ~RLt(ratio, FromInt(params.repay_from))

\* C22: when no tick has a ratio above boost_from or below repay_from,
\* simulateLeveragedSingle reproduces a buy-and-hold leveraged position:
\* collateral and debt keep their values from the opening boost, and the
\* values recorded at each tick are collateral0 - debt0/price and price
\* times that.
C22_WideThresholdsBuyAndHold ==
    (/\ pc \in {"loop", "done"}
     /\ params.init_collateralization > 100
     /\ NoTickPastThresholds)
        => /\ vault.collateral = OpeningPosition.collateral
           /\ vault.debt = OpeningPosition.debt
           /\ \A k \in 1..tick :
                  /\ values_in_collateral[k + 1] =
                         RSub(OpeningPosition.collateral,
                              RDiv(OpeningPosition.debt, FromInt(params.price_path[k])))
                  /\ values_in_debt[k + 1] =
                         RMul(FromInt(params.price_path[k]),
                              RSub(OpeningPosition.collateral,
                                   RDiv(OpeningPosition.debt,
                                        FromInt(params.price_path[k]))))

\* a run returned whose price moved and whose ratio stayed between the
\* thresholds at each of its ticks
C22_Witness ==
    /\ pc = "done"
    /\ tick >= 2
    /\ params.init_collateralization > 100
    /\ NoTickPastThresholds
    /\ params.price_path[tick] # params.price_path[1]

\* C23: for a position created with collateral >= 0 and debt >= 0,
\* collateral >= 0 and debt >= 0 hold after any sequence of boostTo, repayTo
\* and close calls that return normally, at any positive prices.
C23_CollateralAndDebtNonNegative ==
    last.ret # "fatal"
        => (~RLt(vault.collateral, Zero) /\ ~RLt(vault.debt, Zero))

\* C24: automate fails when repay_from <= min_ratio + 10 and leaves the four
\* stored settings and the automation flags unchanged; when repay_from >
\* min_ratio + 10 it stores the four thresholds as given.
C24_AutomateEnforcesRepayFrom ==
    last.op = "automate"
        => IF last.args.settings.repay_from <= last.pre.min_ratio + 10
           THEN /\ last.ret = "fatal"
                /\ vault.automation_settings = last.pre.automation_settings
                /\ vault.isAutomated = last.pre.isAutomated
                /\ vault.automated = last.pre.automated
           ELSE /\ last.ret = "None"
                /\ vault.automation_settings = last.args.settings

\* an automate call that failed on a position holding the settings of an
\* earlier automate call
C24_Witness ==
    /\ last.op = "automate"
    /\ last.ret = "fatal"
    /\ last.pre.automation_settings # NoSettings
    /\ last.pre.automation_settings # last.args.settings

\* the gate bound (t*d - p*c)/(5*(gamma*t - 1) - t) of the repayTo call
\* recorded in last, and its divisor
RepayBoundOfCall ==
    LET t == Rat(last.args.target, 100)
        gamma == Gamma(last.args.service_fee)
        p == FromInt(last.args.price)
    IN  [divisor |-> RSub(RMul(FromInt(5), RSub(RMul(gamma, t), One)), t),
         bound |-> RDiv(RSub(RMul(t, last.pre.debt), RMul(p, last.pre.collateral)),
                        RSub(RMul(FromInt(5), RSub(RMul(gamma, t), One)), t))]

\* price * 1e6 * gwei * 1e-9 of the call recorded in last
UncappedGasCostOfCall ==
    RMul(FromInt(last.args.price), Rat(last.args.gas_price_in_gwei, 1000))

\* C25: in an emergency repay the gas cost used in the deltas, price*g, is
\* the uncapped cost price*1e6*gwei*1e-9 when that is at most the gate bound
\* and the bound otherwise; for 5*(gamma*t - 1) - t > 0 it is at most 20% of
\* the value price*deltaCollateral of the collateral sold.
C25_EmergencyGasClamped ==
    (EmergencyRepayCall /\ (last.ret = "True" \/ PositivityFailure))
        => /\ RMul(FromInt(last.args.price), last.g) =
                  IF RGt(UncappedGasCostOfCall, RepayBoundOfCall.bound)
                  THEN RepayBoundOfCall.bound
                  ELSE UncappedGasCostOfCall
           /\ RGt(RepayBoundOfCall.divisor, Zero)
                  => ~RGt(RMul(FromInt(last.args.price), last.g),
                          RMul(Rat(1, 5),
                               RMul(FromInt(last.args.price), last.deltaCollateral)))

\* an emergency repay applied with a positive divisor and a gas cost above
\* the bound, charged exactly 20% of the collateral sold
C25_Witness ==
    /\ EmergencyRepayCall
    /\ last.ret = "True"
    /\ RGt(RepayBoundOfCall.divisor, Zero)
    /\ RGt(UncappedGasCostOfCall, RepayBoundOfCall.bound)
    /\ RMul(FromInt(last.args.price), last.g) =
           RMul(Rat(1, 5), RMul(FromInt(last.args.price), last.deltaCollateral))

\* a > b, decided on the sign of the difference
Exceeds(a, b) == RSub(a, b)[1] > 0

\* the net value price*collateral - debt of position v
NetValue(v, price) == RSub(RMul(FromInt(price), v.collateral), v.debt)

\* the fees of the rebalance recorded in last: the service fee on the amount
\* swapped and the gas
FeesOfCall ==
    LET p == FromInt(last.args.price)
        fee == RSub(One, Gamma(last.args.service_fee))
    IN  IF last.op = "boostTo"
        THEN RAdd(RMul(fee, last.deltaDebt), RMul(p, last.g))
        ELSE RAdd(RMul(fee, RMul(p, last.deltaCollateral)), RMul(p, last.g))

\* C28: every boostTo or repayTo that returns True lowers the net value
\* price*collateral - debt by exactly the fees paid, (1 - gamma)*deltaDebt +
\* price*g for a boost and (1 - gamma)*price*deltaCollateral + price*g for a
\* repay; the net value never increases through a rebalance; a boost with
\* zero gas and zero fee leaves collateral - debt/price unchanged.
C28_RebalanceCostsItsFees ==
    (IsRebalance /\ last.ret = "True")
        => /\ NetValue(vault, last.args.price) =
                  RSub(NetValue(last.pre, last.args.price), FeesOfCall)
           /\ ~Exceeds(NetValue(vault, last.args.price),
                       NetValue(last.pre, last.args.price))
           /\ (/\ last.op = "boostTo"
               /\ last.args.gas_price_in_gwei = 0
               /\ last.args.service_fee = 0)
                  => RSub(vault.collateral,
                          RDiv(vault.debt, FromInt(last.args.price))) =
                     RSub(last.pre.collateral,
                          RDiv(last.pre.debt, FromInt(last.args.price)))

\* C29: whenever boostTo returns True with target > 100% and service fee <
\* 80%, both debt and collateral strictly increase; whenever repayTo returns
\* True outside the emergency branch, both collateral and debt strictly
\* decrease.
C29_RebalanceDirection ==
    /\ (/\ last.op = "boostTo"
        /\ last.ret = "True"
        /\ last.args.target > 100
        /\ last.args.service_fee < 80)
           => /\ Exceeds(vault.debt, last.pre.debt)
              /\ Exceeds(vault.collateral, last.pre.collateral)
    /\ (/\ last.op = "repayTo"
        /\ last.ret = "True"
        /\ ~EmergencyRepayCall)
           => /\ Exceeds(last.pre.collateral, vault.collateral)
              /\ Exceeds(last.pre.debt, vault.debt)

\* a repay outside the emergency branch, with gas above the cap and a
\* service fee, on a position an earlier boost had created
C29_Witness ==
    /\ last.op = "repayTo"
    /\ last.ret = "True"
    /\ ~EmergencyRepayCall
    /\ last.args.gas_price_in_gwei > GasCapGwei
    /\ last.args.service_fee > 0
    /\ calls = 2
    /\ \A pos \in InitPositions : last.pre.debt # FromInt(pos[2])

\* C27: for every leverage L >= 1 that optimizeRatioContinuous returns, the
\* clamped L = 1 included, optimizeAutomationBoundedGBM derives an initial
\* guess without failing: [200, 220, 240, 220] when 100*L/(L - 1) <
\* min_ratio + 10, and [R - 5, R, R + 5, R] with R = 100*L/(L - 1) otherwise.
C27_InitialGuessDerived ==
    (optimizer.pc \notin {"start", "guess"} /\ ~RLt(optimizer.L, One))
        => /\ optimizer.initial_guess # << >>
           /\ optimizer.initial_guess =
                  IF RLt(optimizer.R_init, FromInt(optimizer.min_ratio + 10))
                  THEN << FromInt(200), FromInt(220), FromInt(240), FromInt(220) >>
                  ELSE << RSub(optimizer.R_init, FromInt(5)), optimizer.R_init,
                          RAdd(optimizer.R_init, FromInt(5)), optimizer.R_init >>

C26_BridgeEndsAtEnd ==
    gbm.pc = "returned"
        => /\ gbm.W[gbm.N] = Zero
           /\ gbm.X[gbm.N] = [log |-> One, sigma2 |-> Zero, noise |-> Zero]

====
